---- MODULE Spec2Model ----
(***************************************************************************)
(* Model of the debate application: the client orchestrator (component     *)
(* Home: start / stop / two-agent loop / player mode / judge), the client  *)
(* transport wrapper fetchWithRetry, and the two server routes             *)
(* POST /api/debate and GET /api/models with their retry loops.            *)
(***************************************************************************)
EXTENDS Integers, Sequences, FiniteSets, TLC

\* ------------------------------------------------------------------ bounds
\* MAX_TURNS (25 in the source) is drawn from 0..MaxTurnsBound in Init.
MaxTurnsBound == 1
\* Scaled HISTORY_WINDOW_SIZE (50 in the source, i.e. 2 x MAX_TURNS).
HISTORY_WINDOW_SIZE == 2
\* 403 answers the generation endpoint may give to one request in Spec.
MaxRateLimited == 2
\* Network-level fetch failures one wrapped call may meet in Spec.
MaxNetErr == 1
\* Player submissions per session in Spec.
MaxPlayerMsgs == 2

\* Longest conversation handed to the window computation in SpecWindow.
MaxConvLen == 4
\* Runs of the mount effect of one page in SpecCatalog.
MaxMounts == 3
\* ------------------------------------------------------- program constants
MAX_RETRIES == 500
CLIENT_MAX_RETRIES == 5
MODELS_MAX_RETRIES == 500

\* ------------------------------------------------------------- data model
NoRetries == 0 - 1

Msg(role, sender, text, retries) ==
    [role |-> role, sender |-> sender, text |-> text, retries |-> retries]

TopicMsg == Msg("user", "System", "topic", NoRetries)
InitialPromptMsg == Msg("user", "System", "initialPrompt", NoRetries)
PersonalizedPromptMsg(nextSender) ==
    Msg("user", "System", IF nextSender = "AI 1" THEN "counter:AI 1" ELSE "counter:AI 2", NoRetries)
PlayerMsg == Msg("user", "Player", "playerMessage", NoRetries)
ModelMsg(sender, retries) == Msg("model", sender, "text", retries)

Part(role, text) == [role |-> role, text |-> text]

\* variant: slice(0, n), the oldest n turns
SliceFirst(s, n) ==
    IF Len(s) <= n THEN s ELSE SubSeq(s, 1, n)
\* s.slice(-n)
SliceLast(s, n) ==
    IF Len(s) <= n THEN s ELSE SubSeq(s, Len(s) - n + 1, Len(s))

\* variant: `if` in place of `while`, one leading model turn is dropped
DropOneLeadingModel(s) ==
    IF Len(s) > 0 /\ s[1].role = "model" THEN Tail(s) ELSE s
\* while (h.length > 0 && h[0].role === 'model') h = h.slice(1)
RECURSIVE DropLeadingModel(_)
DropLeadingModel(s) ==
    IF Len(s) > 0 /\ s[1].role = "model" THEN DropLeadingModel(Tail(s)) ELSE s

\* variant: nothing is filtered out
NonSystemAll(s) == s
\* s.filter(f)
RECURSIVE NonSystem(_)
NonSystem(s) ==
    IF s = <<>> THEN <<>>
    ELSE IF s[1].sender # "System" THEN <<s[1]>> \o NonSystem(Tail(s))
    ELSE NonSystem(Tail(s))

\* variant: the sender is carried over into the payload
ToApiKeepsSender(s) ==
    [k \in 1..Len(s) |-> [role |-> s[k].role, text |-> s[k].text, sender |-> s[k].sender]]
\* historyMessages.map(({role, parts}) => ({role, parts}))
ToApi(s) == [k \in 1..Len(s) |-> Part(s[k].role, s[k].text)]

\* slice(-HISTORY_WINDOW_SIZE) followed by the leading-model trim
HistoryWindow(s) == DropLeadingModel(SliceLast(s, HISTORY_WINDOW_SIZE))

\* variant: the window is sent as it is, without the re-injected opening prompt
DebateHistoryForApiRaw(currentHistory) == ToApi(HistoryWindow(currentHistory))
\* the history sent by runAIDebate / runPlayerDebate
DebateHistoryForApi(currentHistory) ==
    LET h == ToApi(HistoryWindow(currentHistory))
    IN  IF Len(h) = 0 \/ h[1].role # "user"
        THEN <<Part("user", "initialPrompt")>> \o h
        ELSE h

\* the history sent by getAIResponse
ResponseHistoryForApi(currentChatHistory) ==
    ToApi(DropLeadingModel(SliceLast(NonSystem(currentChatHistory), HISTORY_WINDOW_SIZE)))
        \o <<Part("user", "counter:player")>>

\* debateContent of performJudgment: the non-System turns, in order
DebateContent(chat) ==
    LET t == NonSystem(chat)
    IN  [k \in 1..Len(t) |-> [sender |-> t[k].sender, text |-> t[k].text]]

\* ------------------------------------------------------------------ state
VARIABLES
    debateMode,               \* 'ai-vs-ai' | 'ai-vs-player'
    chatHistory,              \* the displayed transcript (state chatHistory)
    isLoading,
    isJudging,
    error,                    \* the error banner, "null" when absent
    judgment,                 \* the verdict, "null" when absent
    waitingForPlayer,
    stopDebateRef,            \* cancelRequested
    aiResponseInProgressRef,  \* the in-flight flag of getAIResponse
    maxTurns,                 \* MAX_TURNS, turns per side
    calls,                    \* the suspended async functions, each awaiting fetchWithRetry
    issued,                   \* history: the generation calls issued since the last start
    ended,                    \* history: how the debate of this session left its loop
    playerMsgs,               \* history: player submissions of this session
    listing,                  \* one run of the GET /api/models handler
    sessionMode,              \* history: debateMode at the last accepted start
    modelCatalog              \* the model catalog of Home: state, refs and pending fetches

vars == <<debateMode, chatHistory, isLoading, isJudging, error, judgment,
          waitingForPlayer, stopDebateRef, aiResponseInProgressRef, maxTurns,
          calls, issued, ended, playerMsgs, listing, sessionMode, modelCatalog>>

Undefined == "undefined"
NoResp == [status |-> 0, retries |-> NoRetries, details |-> "none", last |-> "none"]

Body(model, systemPrompt, hasHistory, history) ==
    [model |-> model, systemPrompt |-> systemPrompt,
     hasHistory |-> hasHistory, history |-> history]

\* an async function of Home suspended at `await fetchWithRetry('/api/debate', ...)`
NewCall(fn, i, currentHistory, body, transcript) ==
    [fn |-> fn, i |-> i, currentHistory |-> currentHistory, body |-> body,
     transcript |-> transcript,
     stage |-> "fetch",      \* fetch | server | returned | thrown
     attempt |-> 0,          \* loop index of fetchWithRetry
     fetched |-> 0,          \* history: invocations of fetch
     clientSlept |-> 0,      \* history: sleeps of fetchWithRetry
     srvI |-> 0,             \* loop index of POST
     invoked |-> 0,          \* history: invocations of chat.sendMessage
     slept |-> 0,            \* history: sleeps of POST (one per 403)
     resp |-> NoResp,
     thrown |-> "none",
     lastError |-> "none",         \* lastError of POST
     clientLastError |-> "none"]   \* lastError of fetchWithRetry

RemoveAt(s, n) == SubSeq(s, 1, n - 1) \o SubSeq(s, n + 1, Len(s))
ReplaceAt(s, n, x) == [s EXCEPT ![n] = x]

\* --------------------------------------------------- POST /api/debate
\* variant: the handler without its check of the first role
PostValidateNoRoleCheck(body) ==
    IF body.systemPrompt = Undefined THEN 500
    ELSE IF ~body.hasHistory THEN 500
    ELSE IF body.model \in {Undefined, ""} \/ body.systemPrompt = "" THEN 400
    ELSE 0
\* The statements before the retry loop: 0 when the handler goes on to the
\* loop, else the status it answers with.
PostValidate(body) ==
    IF body.systemPrompt = Undefined THEN 500            \* systemPrompt.substring throws
    ELSE IF ~body.hasHistory THEN 500                    \* history.length throws
    ELSE IF Len(body.history) > 0 /\ body.history[1].role # "user" THEN 500
    ELSE IF body.model \in {Undefined, ""} \/ body.systemPrompt = "" THEN 400
    ELSE 0

\* variant: every caught error is retried
PostRetryableAll(err) == err # "ok"
\* which caught errors the loop of POST retries
PostRetryable(err) == err = "403"

\* variant: one iteration more than MAX_RETRIES
PostLoopContinuesOffByOne(i) == i + 1 <= MAX_RETRIES
\* the loop condition of POST, for the iteration after i
PostLoopContinues(i) == i + 1 < MAX_RETRIES

\* variant: the answer counts attempts, not retries
SuccessRetriesCountsAttempts(i) == i + 1
\* the retries field of the success answer of iteration i
SuccessRetries(i) == i

\* The handler from its entry to the first `await chat.sendMessage`.
PostReceived(c) ==
    LET st == PostValidate(c.body)
    IN  IF st = 0
        THEN [c EXCEPT !.stage = "server", !.fetched = @ + 1,
                       !.srvI = 0, !.invoked = 0, !.slept = 0, !.lastError = "none"]
        ELSE [c EXCEPT !.stage = "returned", !.fetched = @ + 1,
                       !.srvI = 0, !.invoked = 0, !.slept = 0, !.lastError = "none",
                       !.resp = [status |-> st, retries |-> NoRetries,
                                 details |-> IF st = 400 THEN "missing" ELSE "invalid",
                                 last |-> "none"]]

\* One iteration of the retry loop: outcome is what chat.sendMessage did.
PostAttempt(c, outcome) ==
    IF outcome = "ok"
    THEN [c EXCEPT !.stage = "returned", !.invoked = @ + 1,
                   !.resp = [status |-> 200, retries |-> SuccessRetries(c.srvI), details |-> "none",
                             last |-> "none"]]
    ELSE IF PostRetryable(outcome)
    THEN IF PostLoopContinues(c.srvI)
         THEN [c EXCEPT !.invoked = @ + 1, !.slept = @ + 1, !.srvI = @ + 1,
                        !.lastError = outcome]
         ELSE [c EXCEPT !.stage = "returned", !.invoked = @ + 1, !.slept = @ + 1,
                        !.srvI = @ + 1, !.lastError = outcome,
                        !.resp = [status |-> 500, retries |-> NoRetries,
                                  details |-> "exhausted", last |-> outcome]]
    ELSE [c EXCEPT !.stage = "returned", !.invoked = @ + 1, !.lastError = outcome,
                   !.resp = [status |-> 500, retries |-> NoRetries, details |-> outcome,
                             last |-> outcome]]

\* --------------------------------------------------- fetchWithRetry
\* variant: every TypeError is retried, whatever its message
ClientRetryableAnyTypeError(err) == err \in {"TypeError:fetch", "TypeError:other"}
\* which thrown errors fetchWithRetry retries
ClientRetryable(err) == err = "TypeError:fetch"

\* the loop condition of fetchWithRetry, for the iteration after i
ClientLoopContinues(i) == i + 1 < CLIENT_MAX_RETRIES

\* One iteration of fetchWithRetry in which fetch throws err.
FetchThrew(c, err) ==
    IF ClientRetryable(err)
    THEN IF ClientLoopContinues(c.attempt)
         THEN [c EXCEPT !.attempt = @ + 1, !.fetched = @ + 1, !.clientSlept = @ + 1,
                        !.stage = "fetch", !.clientLastError = err]
         ELSE [c EXCEPT !.attempt = @ + 1, !.fetched = @ + 1, !.clientSlept = @ + 1,
                        !.stage = "thrown", !.thrown = "exhausted",
                        !.clientLastError = err]
    ELSE [c EXCEPT !.fetched = @ + 1, !.stage = "thrown", !.thrown = err,
                   !.clientLastError = err]

\* --------------------------------------------------- Home: the orchestrator
Modes == {"ai-vs-ai", "ai-vs-player"}
FormFields == {"topic", "ai1.model", "ai2.model", "judgeModel", "ai1.finalPrompt", "ai2.finalPrompt"}

\* variant: the parity test is inverted
SenderOfInverted(i) == IF i % 2 = 0 THEN "AI 2" ELSE "AI 1"
SenderOf(i) == IF i % 2 = 0 THEN "AI 1" ELSE "AI 2"
\* variant: every request uses the model of AI 1
ModelOfFirst(i) == "ai1.model"
ModelOf(i) == IF i % 2 = 0 THEN "ai1.model" ELSE "ai2.model"

Issue(fn, i, model) == [fn |-> fn, i |-> i, model |-> model]

\* variant: the request of iteration i is built before the turns of the
\* earlier iterations were pushed
DebaterCallStale(i, currentHistory) ==
    NewCall("runAIDebate", i, <<InitialPromptMsg>>,
            Body(ModelOf(i), SenderOf(i), TRUE, DebateHistoryForApi(<<InitialPromptMsg>>)), <<>>)
\* the request of iteration i of runAIDebate
DebaterCall(i, currentHistory) ==
    NewCall("runAIDebate", i, currentHistory,
            Body(ModelOf(i), SenderOf(i), TRUE, DebateHistoryForApi(currentHistory)), <<>>)

\* the request of runPlayerDebate
OpeningCall(currentHistory) ==
    NewCall("runPlayerDebate", 0, currentHistory,
            Body("ai1.model", "AI 1", TRUE, DebateHistoryForApi(currentHistory)), <<>>)

\* the request of getAIResponse
RebuttalCall(currentChatHistory) ==
    NewCall("getAIResponse", 0, <<>>,
            Body("ai1.model", "AI 1", TRUE, ResponseHistoryForApi(currentChatHistory)), <<>>)

\* the request of performJudgment
JudgeCall(history) ==
    NewCall("performJudgment", 0, history,
            Body("judgeModel", "judge", TRUE, <<Part("user", "judgePrompt")>>),
            DebateContent(history))

\* variant: every answer is taken for a success, whatever its status
ResponseOkAnyStatus(c) == c.stage = "returned"
\* response.ok of the value fetchWithRetry returned
ResponseOk(c) == c.stage = "returned" /\ c.resp.status = 200
Settled(c) == c.stage \in {"returned", "thrown"}

\* variant: the seed turn alone is enough to start the judge
JudgeAfterLoopNonEmpty(currentHistory) == Len(currentHistory) > 0
\* variant: the judge also needs a turn in the rendered state chatHistory
JudgeAfterLoopStale(currentHistory) == Len(chatHistory) > 1 /\ Len(currentHistory) > 1
\* the condition of the finally block of runAIDebate that starts the judge
JudgeAfterLoop(currentHistory) == Len(currentHistory) > 1

\* variant: the loop never looks at the flag
StopIgnored(stop) == FALSE
\* the condition under which the loop of runAIDebate breaks at its head
StopObserved(stop) == stop

\* variant: one iteration more than MAX_TURNS * 2
InLoopInclusive(i) == i <= maxTurns * 2
\* the loop condition of runAIDebate
InLoop(i) == i < maxTurns * 2

\* The finally block of runAIDebate.
AIFinally(currentHistory, rest, issuedBefore) ==
    /\ isLoading' = FALSE
    /\ IF JudgeAfterLoop(currentHistory)
       THEN /\ isJudging' = TRUE
            /\ calls' = Append(rest, JudgeCall(currentHistory))
            /\ issued' = Append(issuedBefore, Issue("performJudgment", 0, "judgeModel"))
       ELSE /\ isJudging' = isJudging
            /\ calls' = rest
            /\ issued' = issuedBefore

\* The loop of runAIDebate from the head of iteration i to its next await or
\* to the end of the function.
AILoop(i, currentHistory, rest, stop, errorBefore, issuedBefore, endedBefore) ==
    IF InLoop(i) /\ ~StopObserved(stop)
    THEN /\ calls' = Append(rest, DebaterCall(i, currentHistory))
         /\ issued' = Append(issuedBefore, Issue("runAIDebate", i, ModelOf(i)))
         /\ isLoading' = TRUE
         /\ error' = errorBefore
         /\ ended' = endedBefore
         /\ isJudging' = isJudging
    ELSE /\ error' = IF InLoop(i) THEN "stopped" ELSE errorBefore
         /\ ended' = IF InLoop(i) THEN "stopped" ELSE "completed"
         /\ AIFinally(currentHistory, rest, issuedBefore)

\* variant: only the topic is validated
FormValidTopicOnly(form, mode) == form["topic"]
FormValid(form, mode) ==
    LET requiredAI2 == mode = "ai-vs-ai"
    IN  /\ form["topic"] /\ form["ai1.model"] /\ form["judgeModel"] /\ form["ai1.finalPrompt"]
        /\ requiredAI2 => (form["ai2.model"] /\ form["ai2.finalPrompt"])

\* variant: the start button of the earlier revision, enabled while judging
StartEnabledWhileJudging == ~isLoading
\* the start button is rendered enabled
StartEnabled == ~(isLoading \/ isJudging)

\* variant: handleStartDebate without the reset of stopDebateRef
HandleStartDebateKeepsStop(form) ==
    /\ StartEnabled
    /\ IF ~FormValid(form, debateMode)
       THEN /\ error' = "validation"
            /\ UNCHANGED <<debateMode, chatHistory, isLoading, isJudging, judgment,
                           waitingForPlayer, stopDebateRef, aiResponseInProgressRef,
                           maxTurns, calls, issued, ended, playerMsgs, listing, sessionMode, modelCatalog>>
       ELSE /\ chatHistory' = <<TopicMsg>>
            /\ judgment' = "null"
            /\ waitingForPlayer' = FALSE
            /\ stopDebateRef' = stopDebateRef
            /\ aiResponseInProgressRef' = FALSE
            /\ playerMsgs' = 0
            /\ IF debateMode = "ai-vs-player"
               THEN /\ calls' = Append(calls, OpeningCall(<<InitialPromptMsg>>))
                    /\ issued' = <<Issue("runPlayerDebate", 0, "ai1.model")>>
                    /\ isLoading' = TRUE
                    /\ error' = "null"
                    /\ ended' = "no"
                    /\ isJudging' = isJudging
               ELSE AILoop(0, <<InitialPromptMsg>>, calls, stopDebateRef, "null", <<>>, "no")
            /\ sessionMode' = debateMode
            /\ UNCHANGED <<debateMode, maxTurns, listing, modelCatalog>>
HandleStartDebate(form) ==
    /\ StartEnabled
    /\ IF ~FormValid(form, debateMode)
       THEN /\ error' = "validation"
            /\ UNCHANGED <<debateMode, chatHistory, isLoading, isJudging, judgment,
                           waitingForPlayer, stopDebateRef, aiResponseInProgressRef,
                           maxTurns, calls, issued, ended, playerMsgs, listing, sessionMode, modelCatalog>>
       ELSE /\ chatHistory' = <<TopicMsg>>
            /\ judgment' = "null"
            /\ waitingForPlayer' = FALSE
            /\ stopDebateRef' = FALSE
            /\ aiResponseInProgressRef' = FALSE
            /\ playerMsgs' = 0
            /\ IF debateMode = "ai-vs-player"
               THEN /\ calls' = Append(calls, OpeningCall(<<InitialPromptMsg>>))
                    /\ issued' = <<Issue("runPlayerDebate", 0, "ai1.model")>>
                    /\ isLoading' = TRUE
                    /\ error' = "null"
                    /\ ended' = "no"
                    /\ isJudging' = isJudging
               ELSE AILoop(0, <<InitialPromptMsg>>, calls, FALSE, "null", <<>>, "no")
            /\ sessionMode' = debateMode
            /\ UNCHANGED <<debateMode, maxTurns, listing, modelCatalog>>

\* the stop button is rendered
StopRendered == isLoading

\* variant: stop also lowers the loading state
HandleStopDebateClearsLoading ==
    /\ StopRendered
    /\ stopDebateRef' = TRUE
    /\ aiResponseInProgressRef' = FALSE
    /\ isLoading' = FALSE
    /\ UNCHANGED <<debateMode, chatHistory, isJudging, error, judgment,
                   waitingForPlayer, maxTurns, calls, issued, ended, playerMsgs, listing, sessionMode, modelCatalog>>
HandleStopDebate ==
    /\ StopRendered
    /\ stopDebateRef' = TRUE
    /\ aiResponseInProgressRef' = FALSE
    /\ UNCHANGED <<debateMode, chatHistory, isLoading, isJudging, error, judgment,
                   waitingForPlayer, maxTurns, calls, issued, ended, playerMsgs, listing, sessionMode, modelCatalog>>

SetDebateMode(m) ==
    /\ ~(isLoading \/ isJudging)
    /\ m # debateMode
    /\ debateMode' = m
    /\ UNCHANGED <<chatHistory, isLoading, isJudging, error, judgment, waitingForPlayer,
                   stopDebateRef, aiResponseInProgressRef, maxTurns, calls, issued,
                   ended, playerMsgs, listing, sessionMode, modelCatalog>>

\* Continuation of runAIDebate after `await fetchWithRetry`.
RunAIDebateResume(n) ==
    LET c == calls[n]
        rest == RemoveAt(calls, n)
        newMessage == ModelMsg(SenderOf(c.i), c.resp.retries)
        pushed == c.currentHistory \o <<newMessage, PersonalizedPromptMsg(SenderOf(c.i + 1))>>
    IN  /\ c.fn = "runAIDebate" /\ Settled(c)
        /\ IF ResponseOk(c)
           THEN /\ chatHistory' = Append(chatHistory, newMessage)
                /\ AILoop(c.i + 1, pushed, rest, stopDebateRef, error, issued, ended)
           ELSE /\ chatHistory' = chatHistory
                /\ error' = "api"
                /\ ended' = "error"
                /\ AIFinally(c.currentHistory, rest, issued)
        /\ UNCHANGED <<debateMode, judgment, waitingForPlayer, stopDebateRef,
                       aiResponseInProgressRef, maxTurns, playerMsgs, listing, sessionMode, modelCatalog>>

\* Continuation of runPlayerDebate after `await fetchWithRetry`.
RunPlayerDebateResume(n) ==
    LET c == calls[n]
    IN  /\ c.fn = "runPlayerDebate" /\ Settled(c)
        /\ calls' = RemoveAt(calls, n)
        /\ isLoading' = FALSE
        /\ IF ResponseOk(c)
           THEN /\ chatHistory' = Append(chatHistory, ModelMsg("AI 1", c.resp.retries))
                /\ waitingForPlayer' = TRUE
                /\ UNCHANGED <<error, ended>>
           ELSE /\ error' = "api"
                /\ ended' = "error"
                /\ UNCHANGED <<chatHistory, waitingForPlayer>>
        /\ UNCHANGED <<debateMode, isJudging, judgment, stopDebateRef,
                       aiResponseInProgressRef, maxTurns, issued, playerMsgs, listing, sessionMode, modelCatalog>>

\* the player form is rendered and its buttons are enabled
PlayerFormEnabled ==
    debateMode = "ai-vs-player" /\ waitingForPlayer /\ ~(isLoading \/ isJudging)

\* variant: the guard of getAIResponse always takes its early return
AlreadyInProgressAlways(flag) == TRUE
\* the early return of getAIResponse
AlreadyInProgress(flag) == flag

\* variant: getAIResponse raises its flag only after the call has returned
HandlePlayerMessageLateFlag ==
    LET updatedHistory == Append(chatHistory, PlayerMsg)
    IN  /\ PlayerFormEnabled
        /\ playerMsgs < MaxPlayerMsgs
        /\ playerMsgs' = playerMsgs + 1
        /\ waitingForPlayer' = FALSE
        /\ isLoading' = TRUE
        /\ chatHistory' = updatedHistory
        /\ IF AlreadyInProgress(aiResponseInProgressRef)
           THEN UNCHANGED <<aiResponseInProgressRef, calls, issued>>
           ELSE /\ aiResponseInProgressRef' = aiResponseInProgressRef
                /\ calls' = Append(calls, RebuttalCall(updatedHistory))
                /\ issued' = Append(issued, Issue("getAIResponse", playerMsgs, "ai1.model"))
        /\ UNCHANGED <<debateMode, isJudging, error, judgment, stopDebateRef, maxTurns,
                       ended, listing, sessionMode, modelCatalog>>

\* variant: the submission is appended to the transcript as it was at the start
HandlePlayerMessageStale ==
    LET updatedHistory == Append(<<TopicMsg>>, PlayerMsg)
    IN  /\ PlayerFormEnabled
        /\ playerMsgs < MaxPlayerMsgs
        /\ playerMsgs' = playerMsgs + 1
        /\ waitingForPlayer' = FALSE
        /\ isLoading' = TRUE
        /\ chatHistory' = updatedHistory
        /\ IF AlreadyInProgress(aiResponseInProgressRef)
           THEN UNCHANGED <<aiResponseInProgressRef, calls, issued>>
           ELSE /\ aiResponseInProgressRef' = TRUE
                /\ calls' = Append(calls, RebuttalCall(updatedHistory))
                /\ issued' = Append(issued, Issue("getAIResponse", playerMsgs, "ai1.model"))
        /\ UNCHANGED <<debateMode, isJudging, error, judgment, stopDebateRef, maxTurns,
                       ended, listing, sessionMode, modelCatalog>>

\* handlePlayerMessage, with getAIResponse up to its await
HandlePlayerMessage ==
    LET updatedHistory == Append(chatHistory, PlayerMsg)
    IN  /\ PlayerFormEnabled
        /\ playerMsgs < MaxPlayerMsgs
        /\ playerMsgs' = playerMsgs + 1
        /\ waitingForPlayer' = FALSE
        /\ isLoading' = TRUE
        /\ chatHistory' = updatedHistory
        /\ IF AlreadyInProgress(aiResponseInProgressRef)
           THEN UNCHANGED <<aiResponseInProgressRef, calls, issued>>
           ELSE /\ aiResponseInProgressRef' = TRUE
                /\ calls' = Append(calls, RebuttalCall(updatedHistory))
                /\ issued' = Append(issued, Issue("getAIResponse", playerMsgs, "ai1.model"))
        /\ UNCHANGED <<debateMode, isJudging, error, judgment, stopDebateRef, maxTurns,
                       ended, listing, sessionMode, modelCatalog>>

\* variant: an answer that arrives after stop is dropped like a failure
GetAIResponseResumeObservesStop(n) ==
    LET c == calls[n]
    IN  /\ c.fn = "getAIResponse" /\ Settled(c)
        /\ calls' = RemoveAt(calls, n)
        /\ isLoading' = FALSE
        /\ aiResponseInProgressRef' = FALSE
        /\ IF ResponseOk(c) /\ ~stopDebateRef
           THEN /\ chatHistory' = Append(chatHistory, ModelMsg("AI 1", c.resp.retries))
                /\ waitingForPlayer' = TRUE
                /\ UNCHANGED <<error, ended>>
           ELSE /\ error' = "api"
                /\ ended' = "error"
                /\ UNCHANGED <<chatHistory, waitingForPlayer>>
        /\ UNCHANGED <<debateMode, isJudging, judgment, stopDebateRef, maxTurns,
                       issued, playerMsgs, listing, sessionMode, modelCatalog>>
\* Continuation of getAIResponse after `await fetchWithRetry`.
GetAIResponseResume(n) ==
    LET c == calls[n]
    IN  /\ c.fn = "getAIResponse" /\ Settled(c)
        /\ calls' = RemoveAt(calls, n)
        /\ isLoading' = FALSE
        /\ aiResponseInProgressRef' = FALSE
        /\ IF ResponseOk(c)
           THEN /\ chatHistory' = Append(chatHistory, ModelMsg("AI 1", c.resp.retries))
                /\ waitingForPlayer' = TRUE
                /\ UNCHANGED <<error, ended>>
           ELSE /\ error' = "api"
                /\ ended' = "error"
                /\ UNCHANGED <<chatHistory, waitingForPlayer>>
        /\ UNCHANGED <<debateMode, isJudging, judgment, stopDebateRef, maxTurns,
                       issued, playerMsgs, listing, sessionMode, modelCatalog>>

\* the condition of startJudgment
JudgeAfterPlayer(prev) == Len(prev) > 1

\* handleEndPlayerDebate, with startJudgment and performJudgment up to its await
HandleEndPlayerDebate ==
    /\ PlayerFormEnabled
    /\ waitingForPlayer' = FALSE
    /\ isLoading' = FALSE
    /\ ended' = "user"
    /\ IF JudgeAfterPlayer(chatHistory)
       THEN /\ isJudging' = TRUE
            /\ calls' = Append(calls, JudgeCall(chatHistory))
            /\ issued' = Append(issued, Issue("performJudgment", 0, "judgeModel"))
       ELSE UNCHANGED <<isJudging, calls, issued>>
    /\ UNCHANGED <<debateMode, chatHistory, error, judgment, stopDebateRef,
                   aiResponseInProgressRef, maxTurns, playerMsgs, listing, sessionMode, modelCatalog>>

\* variant: performJudgment without its finally block on the failure path
PerformJudgmentResumeNoFinally(n) ==
    LET c == calls[n]
    IN  /\ c.fn = "performJudgment" /\ Settled(c)
        /\ calls' = RemoveAt(calls, n)
        /\ IF ResponseOk(c)
           THEN judgment' = "verdict" /\ isJudging' = FALSE /\ UNCHANGED error
           ELSE error' = "judge" /\ UNCHANGED <<judgment, isJudging>>
        /\ UNCHANGED <<debateMode, chatHistory, isLoading, waitingForPlayer, stopDebateRef,
                       aiResponseInProgressRef, maxTurns, issued, ended, playerMsgs, listing, sessionMode, modelCatalog>>
\* Continuation of performJudgment after `await fetchWithRetry`.
PerformJudgmentResume(n) ==
    LET c == calls[n]
    IN  /\ c.fn = "performJudgment" /\ Settled(c)
        /\ calls' = RemoveAt(calls, n)
        /\ isJudging' = FALSE
        /\ IF ResponseOk(c)
           THEN judgment' = "verdict" /\ UNCHANGED error
           ELSE error' = "judge" /\ UNCHANGED judgment
        /\ UNCHANGED <<debateMode, chatHistory, isLoading, waitingForPlayer, stopDebateRef,
                       aiResponseInProgressRef, maxTurns, issued, ended, playerMsgs, listing, sessionMode, modelCatalog>>

\* --------------------------------------------------- the network
FetchErrors == {"TypeError:fetch", "TypeError:other", "AbortError"}
SendOutcomes == {"ok", "403", "other"}

\* fetch of attempt c.attempt throws err
FetchFails(n, err, limit) ==
    LET c == calls[n]
    IN  /\ c.stage = "fetch"
        /\ ClientRetryable(err) => c.clientSlept < limit
        /\ calls' = ReplaceAt(calls, n, FetchThrew(c, err))
        /\ UNCHANGED <<debateMode, chatHistory, isLoading, isJudging, error, judgment,
                       waitingForPlayer, stopDebateRef, aiResponseInProgressRef, maxTurns,
                       issued, ended, playerMsgs, listing, sessionMode, modelCatalog>>

\* the request of attempt c.attempt reaches POST /api/debate
PostReceive(n) ==
    LET c == calls[n]
    IN  /\ c.stage = "fetch"
        /\ calls' = ReplaceAt(calls, n, PostReceived(c))
        /\ UNCHANGED <<debateMode, chatHistory, isLoading, isJudging, error, judgment,
                       waitingForPlayer, stopDebateRef, aiResponseInProgressRef, maxTurns,
                       issued, ended, playerMsgs, listing, sessionMode, modelCatalog>>

\* one iteration of the retry loop of POST /api/debate
PostSendMessage(n, outcome, limit) ==
    LET c == calls[n]
    IN  /\ c.stage = "server"
        /\ PostRetryable(outcome) => c.slept < limit
        /\ calls' = ReplaceAt(calls, n, PostAttempt(c, outcome))
        /\ UNCHANGED <<debateMode, chatHistory, isLoading, isJudging, error, judgment,
                       waitingForPlayer, stopDebateRef, aiResponseInProgressRef, maxTurns,
                       issued, ended, playerMsgs, listing, sessionMode, modelCatalog>>

\* --------------------------------------------------- GET /api/models
\* A catalog entry: name is its path as segments, the last one the id.
CatalogIds == {1, 2}
CatalogEntries ==
    [name : {<<0, k>> : k \in CatalogIds}, supportsGenerate : BOOLEAN]
Catalogs == {<<>>} \cup {<<a>> : a \in CatalogEntries}
                   \cup {<<a, b>> : a \in CatalogEntries, b \in CatalogEntries}

\* data.models.filter(m => m.supportedGenerationMethods?.includes('generateContent'))
RECURSIVE FilterGenerate(_)
FilterGenerate(ms) ==
    IF ms = <<>> THEN <<>>
    ELSE IF ms[1].supportsGenerate THEN <<ms[1]>> \o FilterGenerate(Tail(ms))
    ELSE FilterGenerate(Tail(ms))

\* .map(m => ({id: m.name.split('/').pop(), name: m.displayName}))
MapIds(ms) == [k \in 1..Len(ms) |-> [id |-> ms[k].name[Len(ms[k].name)]]]

\* variant: the entry is put in front, whatever its id
InsertFront(x, sorted) == <<x>> \o sorted
\* insertion of x into a list sorted by (a, b) => b.id.localeCompare(a.id), stable
RECURSIVE InsertDesc(_, _)
InsertDesc(x, sorted) ==
    IF sorted = <<>> THEN <<x>>
    ELSE IF sorted[1].id >= x.id THEN <<sorted[1]>> \o InsertDesc(x, Tail(sorted))
    ELSE <<x>> \o sorted

\* .sort((a, b) => b.id.localeCompare(a.id))
RECURSIVE SortDesc(_)
SortDesc(ms) ==
    IF ms = <<>> THEN <<>>
    ELSE InsertDesc(ms[Len(ms)], SortDesc(SubSeq(ms, 1, Len(ms) - 1)))

FilteredModels(catalog) == SortDesc(MapIds(FilterGenerate(catalog)))

\* what one call of the catalog endpoint can do
ListOutcomes == {"ok", "403", "network", "status", "badjson", "nomodels"}

\* which failures of an attempt the loop of GET goes on after: the 403 branch
\* continues, and every throw inside the try block lands in its catch block,
\* which sleeps and lets the loop go on.
ModelsRetryable(outcome) == outcome \in {"403", "network", "status", "badjson", "nomodels"}

\* the loop condition of GET, for the iteration after i
ModelsLoopContinues(i) == i + 1 < MODELS_MAX_RETRIES

NoListResp ==
    [status |-> 0, models |-> <<>>, retries |-> NoRetries, details |-> "none",
     error |-> "none"]
ListingIdle ==
    [pc |-> "idle", i |-> 0, fetched |-> 0, slept |-> 0, lastError |-> "none",
     resp |-> NoListResp]
ListingStart == [ListingIdle EXCEPT !.pc = "loop"]

\* variant: an empty filtered list is returned like any other
NoCompatibleNever(filteredModels) == FALSE
\* !filteredModels || filteredModels.length === 0
NoCompatible(filteredModels) == Len(filteredModels) = 0

\* One iteration of the loop of GET: outcome is what the catalog endpoint did,
\* catalog the models of an "ok" answer.
ModelsAttempt(l, outcome, catalog) ==
    IF outcome = "ok"
    THEN LET filteredModels == FilteredModels(catalog)
         IN  IF NoCompatible(filteredModels)
             THEN [l EXCEPT !.pc = "done", !.fetched = @ + 1,
                            !.resp = [status |-> 404, models |-> <<>>,
                                      retries |-> NoRetries, details |-> "none",
                                      error |-> "No compatible models available"]]
             ELSE [l EXCEPT !.pc = "done", !.fetched = @ + 1,
                            !.resp = [status |-> 200, models |-> filteredModels,
                                      retries |-> l.i, details |-> "none",
                                      error |-> "none"]]
    ELSE IF ModelsRetryable(outcome)
    THEN IF ModelsLoopContinues(l.i)
         THEN [l EXCEPT !.fetched = @ + 1, !.slept = @ + 1, !.i = @ + 1,
                        !.lastError = outcome]
         ELSE [l EXCEPT !.pc = "done", !.fetched = @ + 1, !.slept = @ + 1, !.i = @ + 1,
                        !.lastError = outcome,
                        !.resp = [status |-> 500, models |-> <<>>, retries |-> NoRetries,
                                  details |-> outcome,
                                  error |-> "Failed to fetch models after all retries"]]
    ELSE [l EXCEPT !.pc = "done", !.fetched = @ + 1, !.lastError = outcome,
                   !.resp = [status |-> 500, models |-> <<>>, retries |-> NoRetries,
                             details |-> outcome,
                             error |-> "Failed to fetch models after all retries"]]

ModelsFetch(outcome, catalog) ==
    /\ listing.pc = "loop"
    /\ outcome # "ok" => catalog = <<>>
    /\ listing' = ModelsAttempt(listing, outcome, catalog)
    /\ UNCHANGED <<debateMode, chatHistory, isLoading, isJudging, error, judgment,
                   waitingForPlayer, stopDebateRef, aiResponseInProgressRef, maxTurns,
                   calls, issued, ended, playerMsgs, sessionMode, modelCatalog>>

\* --------------------------------------------------- Home: the model catalog
\* The page's catalog state and refs, and the fetchModels calls that are
\* suspended at an await. mounts counts runs of the mount effect, started the
\* AbortControllers created so far (one per fetch), and abortControllerRef
\* names the current controller (0 for null). A pending call carries the
\* controller whose signal it fetched with and whether that signal was aborted.
CatalogIdle ==
    [mounted |-> FALSE, mounts |-> 0, models |-> <<>>, isLoadingModels |-> FALSE,
     fetchingModelsRef |-> FALSE, isModelsInitializedRef |-> FALSE,
     abortControllerRef |-> 0, started |-> 0, fetches |-> <<>>]

\* variant: only the in-progress ref guards fetchModels
CatalogSkipFetchingOnly(c) == c.fetchingModelsRef
\* the early return of fetchModels
CatalogSkip(c) == c.fetchingModelsRef \/ c.isModelsInitializedRef

\* abortControllerRef.current.abort(): every fetch on controller k is aborted
AbortFetches(fs, k) ==
    [n \in 1..Len(fs) |-> IF fs[n].signal = k THEN [fs[n] EXCEPT !.aborted = TRUE] ELSE fs[n]]

\* fetchModels up to its first await
FetchModels(c) ==
    IF CatalogSkip(c) THEN c
    ELSE [c EXCEPT !.abortControllerRef = c.started + 1,
                   !.started = @ + 1,
                   !.fetchingModelsRef = TRUE,
                   !.isLoadingModels = TRUE,
                   !.fetches = Append(AbortFetches(@, c.abortControllerRef),
                                      [signal |-> c.started + 1, aborted |-> FALSE])]

\* the mount effect: it runs when the component is mounted, and again after
\* each cleanup when React re-runs the effects of the same component
MountEffect ==
    /\ ~modelCatalog.mounted
    /\ modelCatalog.mounts < MaxMounts
    /\ modelCatalog' = FetchModels([modelCatalog EXCEPT !.mounted = TRUE, !.mounts = @ + 1])
    /\ UNCHANGED <<debateMode, chatHistory, isLoading, isJudging, error, judgment,
                   waitingForPlayer, stopDebateRef, aiResponseInProgressRef, maxTurns,
                   calls, issued, ended, playerMsgs, listing, sessionMode>>

\* the cleanup the mount effect returns
CleanupEffect ==
    /\ modelCatalog.mounted
    /\ modelCatalog' = [modelCatalog EXCEPT !.mounted = FALSE,
                                  !.fetchingModelsRef = FALSE,
                                  !.fetches = AbortFetches(@, modelCatalog.abortControllerRef)]
    /\ UNCHANGED <<debateMode, chatHistory, isLoading, isJudging, error, judgment,
                   waitingForPlayer, stopDebateRef, aiResponseInProgressRef, maxTurns,
                   calls, issued, ended, playerMsgs, listing, sessionMode>>

\* what GET /api/models can answer to the page: a 200 with the filtered models
\* or a 404 for each catalog, a 500, and NoListResp for a fetch that threw
CatalogAnswers ==
    {ModelsAttempt(ListingStart, "ok", c).resp : c \in Catalogs}
        \cup {[NoListResp EXCEPT !.status = 500,
                                 !.error = "Failed to fetch models after all retries"],
              NoListResp}

\* what the try block of fetchModels throws for pending call f and answer
CatalogThrown(f, answer) ==
    IF f.aborted THEN "AbortError"
    ELSE IF answer.status = 0 THEN "TypeError"
    ELSE IF answer.status # 200 THEN "Error"
    ELSE "none"

\* variant: no error is recognised as an abort
IsAbortErrorNever(err) == FALSE
\* err instanceof Error && err.name === 'AbortError'
IsAbortError(err) == err = "AbortError"

\* fetchModels from its await to its end, for the n-th pending call
FetchModelsResume(n, answer) ==
    LET f == modelCatalog.fetches[n]
        thrown == CatalogThrown(f, answer)
        finally(c) == [c EXCEPT !.fetchingModelsRef = FALSE,
                                !.isLoadingModels = FALSE,
                                !.fetches = RemoveAt(@, n)]
    IN  /\ IF thrown = "none"
           THEN /\ modelCatalog' = finally([modelCatalog EXCEPT !.models = answer.models,
                                                      !.isModelsInitializedRef = TRUE])
                /\ UNCHANGED error
           ELSE IF IsAbortError(thrown)
           THEN /\ modelCatalog' = finally(modelCatalog)
                /\ UNCHANGED error
           ELSE /\ modelCatalog' = finally(modelCatalog)
                /\ error' = "catalog"
        /\ UNCHANGED <<debateMode, chatHistory, isLoading, isJudging, judgment,
                       waitingForPlayer, stopDebateRef, aiResponseInProgressRef, maxTurns,
                       calls, issued, ended, playerMsgs, listing, sessionMode>>

FetchModelsSettle ==
    \E n \in 1..Len(modelCatalog.fetches) : \E answer \in CatalogAnswers :
        FetchModelsResume(n, answer)

\* --------------------------------------------------- specification
Init ==
    /\ debateMode \in Modes
    /\ chatHistory = <<>>
    /\ isLoading = FALSE
    /\ isJudging = FALSE
    /\ error = "null"
    /\ judgment = "null"
    /\ waitingForPlayer = FALSE
    /\ stopDebateRef = FALSE
    /\ aiResponseInProgressRef = FALSE
    /\ maxTurns \in 0..MaxTurnsBound
    /\ calls = <<>>
    /\ issued = <<>>
    /\ ended = "no"
    /\ playerMsgs = 0
    /\ listing = ListingIdle
    /\ sessionMode = "none"
    /\ modelCatalog = CatalogIdle

Start == \E form \in [FormFields -> BOOLEAN] : HandleStartDebate(form)
Stop == HandleStopDebate
ChangeMode == \E m \in Modes : SetDebateMode(m)
PlayerSubmit == HandlePlayerMessage
PlayerEnd == HandleEndPlayerDebate
NetFail == \E n \in 1..Len(calls) : \E err \in FetchErrors : FetchFails(n, err, MaxNetErr)
Receive == \E n \in 1..Len(calls) : PostReceive(n)
SendMessage == \E n \in 1..Len(calls) : \E o \in SendOutcomes : PostSendMessage(n, o, MaxRateLimited)
ResumeAI == \E n \in 1..Len(calls) : RunAIDebateResume(n)
ResumeOpening == \E n \in 1..Len(calls) : RunPlayerDebateResume(n)
ResumeRebuttal == \E n \in 1..Len(calls) : GetAIResponseResume(n)
ResumeJudge == \E n \in 1..Len(calls) : PerformJudgmentResume(n)

Next ==
    \/ Start
    \/ Stop
    \/ ChangeMode
    \/ PlayerSubmit
    \/ PlayerEnd
    \/ NetFail
    \/ Receive
    \/ SendMessage
    \/ ResumeAI
    \/ ResumeOpening
    \/ ResumeRebuttal
    \/ ResumeJudge

Spec == Init /\ [][Next]_vars

\* ------------------------- one wrapped request to POST /api/debate, on its own
RequestStrings == {Undefined, "", "x"}
RequestHistories ==
    {<<>>} \cup {<<Part(r, "t")>> : r \in {"user", "model"}}
           \cup {<<Part(r1, "t"), Part(r2, "t")>> : r1 \in {"user", "model"}, r2 \in {"user", "model"}}
RequestBodies ==
    {Body(m, p, TRUE, h) : m \in RequestStrings, p \in RequestStrings, h \in RequestHistories}
        \cup {Body(m, p, FALSE, <<>>) : m \in RequestStrings, p \in RequestStrings}

Idle ==
    /\ debateMode = "ai-vs-ai"
    /\ chatHistory = <<>>
    /\ isLoading = FALSE
    /\ isJudging = FALSE
    /\ error = "null"
    /\ judgment = "null"
    /\ waitingForPlayer = FALSE
    /\ stopDebateRef = FALSE
    /\ aiResponseInProgressRef = FALSE
    /\ maxTurns = 0
    /\ issued = <<>>
    /\ ended = "no"
    /\ playerMsgs = 0
    /\ sessionMode = "none"
    /\ modelCatalog = CatalogIdle

InitCall ==
    /\ Idle
    /\ \E body \in RequestBodies : calls = <<NewCall("request", 0, <<>>, body, <<>>)>>
    /\ listing = ListingIdle

\* one request to GET /api/models, on its own
InitModels ==
    /\ Idle
    /\ calls = <<>>
    /\ listing = ListingStart

CallNetFail ==
    \E n \in 1..Len(calls) : \E err \in FetchErrors : FetchFails(n, err, CLIENT_MAX_RETRIES)
CallReceive == \E n \in 1..Len(calls) : PostReceive(n)
CallSendMessage ==
    \E n \in 1..Len(calls) : \E o \in SendOutcomes : PostSendMessage(n, o, MAX_RETRIES)
ListModels == \E o \in ListOutcomes : \E catalog \in Catalogs : ModelsFetch(o, catalog)

NextRetry == CallNetFail \/ CallReceive \/ CallSendMessage \/ ListModels

SpecRetry == (InitCall \/ InitModels) /\ [][NextRetry]_vars

\* the catalog of the page on its own
InitCatalog ==
    /\ Idle
    /\ calls = <<>>
    /\ listing = ListingIdle

NextCatalog == MountEffect \/ CleanupEffect \/ FetchModelsSettle

SpecCatalog == InitCatalog /\ [][NextCatalog]_vars

\* =================================================================== claims
JudgeIssued == \E k \in 1..Len(issued) : issued[k].fn = "performJudgment"
HasModelTurn == \E k \in 1..Len(chatHistory) : chatHistory[k].role = "model"
DebaterIssues == {k \in 1..Len(issued) : issued[k].fn = "runAIDebate"}
InFlight(fn) == {n \in 1..Len(calls) : calls[n].fn = fn}

\* C1: at most one generation call (debater, opening, rebuttal or judge) is in
\* flight at any time, under every interleaving of start, stop, mode changes,
\* player submissions and completions; a player submission is only taken with
\* no call in flight and then issues exactly one call.
C1_SingleFlight ==
    /\ [](Len(calls) <= 1)
    /\ [][playerMsgs' = playerMsgs + 1 => (Len(calls) = 0 /\ Len(calls') = 1)]_vars

\* a rebuttal call is in flight for the second submission although stop()
\* has cleared the in-flight flag
C1_Witness ==
    /\ Len(calls) = 1
    /\ calls[1].fn = "getAIResponse"
    /\ playerMsgs = 2
    /\ stopDebateRef
    /\ ~aiResponseInProgressRef

\* C2: when a debater call answers 200 after k retryable (403) failures, the
\* model call was invoked k + 1 times, the answer carries retries = k and the
\* model turn appended for it records retries = k.
C2_RetryCount ==
    [][\A n \in 1..Len(calls) :
         (/\ calls[n].fn \in {"runAIDebate", "runPlayerDebate", "getAIResponse"}
          /\ ResponseOk(calls[n])
          /\ Len(chatHistory') = Len(chatHistory) + 1
          /\ chatHistory'[Len(chatHistory')].role = "model")
         => /\ calls[n].invoked = calls[n].slept + 1
            /\ calls[n].resp.retries = calls[n].slept
            /\ chatHistory'[Len(chatHistory')].retries = calls[n].slept]_vars

\* two 403s, then success: the turn records 2
C2_Witness ==
    \E k \in 1..Len(chatHistory) :
        chatHistory[k].role = "model" /\ chatHistory[k].retries = 2

\* C3: when every attempt fails retryably the operation is invoked exactly
\* maxAttempts times (500 generation, 500 listing, 5 client wrapper), never
\* more, and the result is the exhaustion error carrying the last error.
C3_Exhaustion ==
    /\ \A n \in 1..Len(calls) :
         LET c == calls[n]
         IN  /\ c.invoked <= MAX_RETRIES
             /\ c.fetched <= CLIENT_MAX_RETRIES
             /\ (c.slept = MAX_RETRIES) <=>
                    (c.stage = "returned" /\ c.resp.details = "exhausted")
             /\ c.slept = MAX_RETRIES =>
                    (/\ c.invoked = MAX_RETRIES
                     /\ c.resp.status = 500
                     /\ c.resp.last = "403")
             /\ (c.clientSlept = CLIENT_MAX_RETRIES) <=>
                    (c.stage = "thrown" /\ c.thrown = "exhausted")
             /\ c.clientSlept = CLIENT_MAX_RETRIES =>
                    (/\ c.fetched = CLIENT_MAX_RETRIES
                     /\ c.clientLastError = "TypeError:fetch")
    /\ listing.fetched <= MODELS_MAX_RETRIES
    /\ listing.slept = MODELS_MAX_RETRIES =>
           (/\ listing.pc = "done"
            /\ listing.fetched = MODELS_MAX_RETRIES
            /\ listing.resp.status = 500
            /\ listing.lastError # "none"
            /\ listing.resp.details = listing.lastError)

\* the fifth fetch reaches the server, whose 500 attempts all answer 403
C3_Witness ==
    /\ Len(calls) = 1
    /\ calls[1].resp.details = "exhausted"
    /\ calls[1].invoked = MAX_RETRIES
    /\ calls[1].fetched = CLIENT_MAX_RETRIES

\* C4: in the loop of POST only a 403 failure is retried; a failure of another
\* class at attempt i, also after earlier 403s, is answered at once: no sleep
\* and no attempt follow it.
C4_OnlyRateLimitedRetried ==
    \A n \in 1..Len(calls) :
        LET c == calls[n]
        IN  /\ c.lastError \notin {"none", "403"} =>
                (/\ c.stage = "returned"
                 /\ c.resp.status = 500
                 /\ c.resp.details = c.lastError
                 /\ c.invoked = c.slept + 1
                 /\ c.srvI = c.slept)
            /\ (c.lastError = "403" /\ c.slept < MAX_RETRIES /\ c.stage # "returned") =>
                (c.stage = "server" /\ c.invoked = c.slept)

\* a fatal failure at the third attempt, after two 403s
C4_Witness ==
    /\ Len(calls) = 1
    /\ calls[1].lastError = "other"
    /\ calls[1].slept = 2
    /\ calls[1].stage = "returned"

\* C5 (as claimed): in GET /api/models a Permanent failure (another non-success
\* status, a malformed payload) ends the handler with an error after that
\* attempt; the catalog endpoint is not called again.
C5_PermanentIsFatal ==
    listing.lastError \in {"status", "badjson", "nomodels"} =>
        (listing.pc = "done" /\ listing.resp.status = 500)

\* C6: fetchWithRetry retries only network errors (TypeError naming fetch);
\* an HTTP answer of any status is returned by the attempt that got it, any
\* other thrown error is rethrown at once, and fetch runs at most 5 times.
C6_ClientWrapper ==
    \A n \in 1..Len(calls) :
        LET c == calls[n]
        IN  /\ c.fetched <= CLIENT_MAX_RETRIES
            /\ c.stage \in {"server", "returned"} =>
                   (c.fetched = c.attempt + 1 /\ c.attempt = c.clientSlept)
            /\ c.clientLastError \notin {"none", "TypeError:fetch"} =>
                   (/\ c.stage = "thrown"
                    /\ c.thrown = c.clientLastError
                    /\ c.fetched = c.clientSlept + 1)
            /\ c.stage = "fetch" => c.fetched = c.clientSlept

\* a 500 answer returned by the third fetch, after two network errors
C6_Witness ==
    /\ Len(calls) = 1
    /\ calls[1].stage = "returned"
    /\ calls[1].resp.status = 500
    /\ calls[1].clientSlept = 2
    /\ calls[1].fetched = 3

\* C7 (as claimed): in both modes, once the debate has ended by cancellation
\* or by a generation error, the judge call was issued iff a model turn exists.
C7_JudgeIffResponseAnyMode ==
    ended \in {"stopped", "error"} => (JudgeIssued <=> HasModelTurn)

\* C7 (amended): in two-agent mode the judge call is issued iff a model turn
\* exists; in player mode a failed generation call issues no judge call.
C7_JudgeIffResponseTwoAgent ==
    /\ (sessionMode = "ai-vs-ai" /\ ended \in {"stopped", "error"}) =>
           (JudgeIssued <=> HasModelTurn)
    /\ (sessionMode = "ai-vs-player" /\ ended = "error") => ~JudgeIssued
    /\ sessionMode = "ai-vs-player" => ended # "stopped"

\* a two-agent debate that failed at its second call, and was judged
C7_Witness ==
    /\ sessionMode = "ai-vs-ai"
    /\ ended = "error"
    /\ HasModelTurn
    /\ JudgeIssued

C9_CooperativeCancel ==
    /\ [](ended = "stopped" => InFlight("runAIDebate") = {})
    /\ [][/\ (stopDebateRef' /\ ~stopDebateRef) => calls' = calls
          /\ (ended = "stopped" /\ ended' = "stopped") => issued' \in {issued} \cup
                 {Append(issued, Issue("performJudgment", 0, "judgeModel"))}
          /\ \A n \in 1..Len(calls) :
                (/\ calls[n].fn = "runAIDebate"
                 /\ Settled(calls[n])
                 /\ stopDebateRef
                 /\ calls' # calls)
                => /\ InFlight("runAIDebate")' = {}
                   /\ ResponseOk(calls[n]) =>
                        (/\ chatHistory' = Append(chatHistory,
                                ModelMsg(SenderOf(calls[n].i), calls[n].resp.retries))
                         /\ \E m \in 1..Len(calls') :
                               /\ calls'[m].fn = "performJudgment"
                               /\ calls'[m].currentHistory = calls[n].currentHistory \o
                                    <<ModelMsg(SenderOf(calls[n].i), calls[n].resp.retries),
                                      PersonalizedPromptMsg(SenderOf(calls[n].i + 1))>>)]_vars

\* stop() during the first of two planned calls: that turn is appended and
\* no second call is issued
C9_Witness ==
    /\ ended = "stopped"
    /\ maxTurns = 1
    /\ Cardinality(DebaterIssues) = 1
    /\ Len(chatHistory) = 2
    /\ chatHistory[2].sender = "AI 1"

\* a System turn that is neither the topic, the opening prompt nor a counter-prompt
IsNotice(m) ==
    m.sender = "System" /\ m.text \notin {"topic", "initialPrompt", "counter:AI 1", "counter:AI 2"}
NoticeIn(h) == \E k \in 1..Len(h) : IsNotice(h[k])

\* C10 (as claimed): once the loop has broken on the cancel flag, the
\* transcript holds a System cancellation turn and the judge call was issued.
C10_CancellationTurn ==
    ended = "stopped" =>
        (/\ JudgeIssued
         /\ \/ NoticeIn(chatHistory)
            \/ \E n \in 1..Len(calls) : NoticeIn(calls[n].currentHistory))

\* C10 (amended): the step in which the loop breaks on the cancel flag appends
\* no System turn; it sets the error banner to the cancellation message, ends
\* loading, and starts judging over the partial transcript.
C10_CancellationBanner ==
    [][(ended # "stopped" /\ ended' = "stopped") =>
         (/\ error' = "stopped"
          /\ ~isLoading'
          /\ isJudging'
          /\ ~NoticeIn(chatHistory')
          /\ Len(NonSystem(chatHistory')) = Len(NonSystem(chatHistory)) + 1
          /\ \E m \in 1..Len(calls') :
                /\ calls'[m].fn = "performJudgment"
                /\ ~NoticeIn(calls'[m].currentHistory)
                /\ calls'[m].transcript = DebateContent(chatHistory'))]_vars

\* judging over the partial transcript of a cancelled debate
C10_Witness ==
    /\ ended = "stopped"
    /\ error = "stopped"
    /\ isJudging
    /\ Len(calls) = 1
    /\ calls[1].fn = "performJudgment"
    /\ Len(calls[1].transcript) = 1
    /\ maxTurns = 1

\* fetchWithRetry of call c ended without a 200 answer
Failed(c) == Settled(c) /\ c.resp.status # 200
ModelTurns(h) == {k \in 1..Len(h) : h[k].role = "model"}

\* C11: when the debater call of turn i fails in two-agent mode, that step
\* appends no model turn, keeps every turn appended before, and issues no
\* debater call; none is issued afterwards in the session, and the model turns
\* are those of the calls before the failed one.
C11_FailureStopsLoop ==
    /\ []((sessionMode = "ai-vs-ai" /\ ended = "error") =>
            (/\ InFlight("runAIDebate") = {}
             /\ Cardinality(ModelTurns(chatHistory)) = Cardinality(DebaterIssues) - 1))
    /\ [][/\ \A n \in 1..Len(calls) :
                (calls[n].fn = "runAIDebate" /\ Failed(calls[n]) /\ calls' # calls) =>
                    (/\ chatHistory' = chatHistory
                     /\ ended' = "error"
                     /\ error' = "api"
                     /\ DebaterIssues' = DebaterIssues
                     /\ InFlight("runAIDebate")' = {})
          /\ (sessionMode = "ai-vs-ai" /\ ended = "error" /\ ended' = "error") =>
                (DebaterIssues' = DebaterIssues /\ chatHistory' = chatHistory)]_vars

\* the second of two planned calls failed: the turn of AI 1 is kept, no turn
\* of AI 2 exists
C11_Witness ==
    /\ sessionMode = "ai-vs-ai"
    /\ ended = "error"
    /\ maxTurns = 1
    /\ Cardinality(DebaterIssues) = 2
    /\ Len(chatHistory) = 2
    /\ chatHistory[2].sender = "AI 1"

\* C12 (as claimed): once a generation call of the debate has failed, the
\* transcript holds a System error-notice turn.
C12_ErrorNoticeTurn ==
    ended = "error" => NoticeIn(chatHistory)

\* C12 (amended): the step that handles a failed generation call (debater,
\* opening, rebuttal or judge) appends nothing to the transcript; it only sets
\* the error banner, and the transcript never holds a System notice.
C12_ErrorBannerOnly ==
    /\ [](~NoticeIn(chatHistory))
    /\ [][\A n \in 1..Len(calls) :
            (Failed(calls[n]) /\ calls' # calls) =>
                (/\ chatHistory' = chatHistory
                 /\ error' = IF calls[n].fn = "performJudgment" THEN "judge" ELSE "api"
                 /\ judgment' = judgment)]_vars

\* a player session whose rebuttal call failed: topic, AI 1, Player, and the banner
C12_Witness ==
    /\ sessionMode = "ai-vs-player"
    /\ ended = "error"
    /\ error = "api"
    /\ calls = <<>>
    /\ Len(chatHistory) = 3
    /\ chatHistory[3].sender = "Player"

\* C13: the two-agent loop is sequential: at most one debater call is
\* outstanding; the call of turn i is outstanding only with the responses of
\* turns 0..i-1 appended, each followed in the history by its counter-prompt;
\* and a call of turn i >= 1 is issued in the step that appends turn i-1.
C13_Sequential ==
    /\ [](/\ Cardinality(InFlight("runAIDebate")) <= 1
          /\ \A n \in InFlight("runAIDebate") :
               LET c == calls[n]
                   h == c.currentHistory
               IN  /\ Len(h) = 1 + 2 * c.i
                   /\ h[1] = InitialPromptMsg
                   /\ \A j \in 0..(c.i - 1) :
                        /\ h[2 * j + 2].role = "model"
                        /\ h[2 * j + 2].sender = SenderOf(j)
                        /\ h[2 * j + 3].role = "user"
                        /\ h[2 * j + 3].sender = "System"
                        /\ h[2 * j + 3].text = (IF j % 2 = 0 THEN "counter:AI 2" ELSE "counter:AI 1")
                   /\ Cardinality(ModelTurns(chatHistory)) = c.i
                   /\ c.i >= 1 => chatHistory[Len(chatHistory)] = h[Len(h) - 1])
    /\ [][\A k \in DebaterIssues' \ DebaterIssues :
            issued'[k].i >= 1 =>
                (/\ Len(chatHistory') = Len(chatHistory) + 1
                 /\ chatHistory'[Len(chatHistory')].sender = SenderOf(issued'[k].i - 1)
                 /\ \E n \in 1..Len(calls) :
                        calls[n].fn = "runAIDebate" /\ calls[n].i = issued'[k].i - 1 /\ ResponseOk(calls[n]))]_vars

\* the call of AI 2 is at the server, after the turn of AI 1 and its counter-prompt
C13_Witness ==
    /\ Len(calls) = 1
    /\ calls[1].fn = "runAIDebate"
    /\ calls[1].i = 1
    /\ calls[1].stage = "server"
    /\ Len(calls[1].currentHistory) = 3

\* C14: in a two-agent session the debater calls issued never exceed
\* 2 x maxTurns, they are the calls of turns 0, 1, 2, ... in order, and a
\* debate that ran to the end of its loop (no failure, no stop observed)
\* issued exactly 2 x maxTurns.
C14_TurnBudget ==
    sessionMode = "ai-vs-ai" =>
        (/\ Cardinality(DebaterIssues) <= 2 * maxTurns
         /\ \A k \in DebaterIssues : issued[k].i = k - 1
         /\ ended = "completed" => Cardinality(DebaterIssues) = 2 * maxTurns
         /\ ended \in {"stopped", "error"} => Cardinality(DebaterIssues) >= 1)

\* a debate of 1 turn per side ran to its end: two debater calls, then the judge
C14_Witness ==
    /\ sessionMode = "ai-vs-ai"
    /\ ended = "completed"
    /\ maxTurns = 1
    /\ Cardinality(DebaterIssues) = 2
    /\ ~stopDebateRef
    /\ error = "null"

SpokenBy(h, sender) == {k \in ModelTurns(h) : h[k].sender = sender}

\* C15: in a two-agent session the k-th model turn (from 0) is attributed to
\* AI 1 when k is even and to AI 2 when k is odd, the call of turn k is made
\* with that agent's model and prompt, and AI 1 has as many turns as AI 2 or
\* one more.
C15_Parity ==
    sessionMode = "ai-vs-ai" =>
        (/\ \A k \in 2..Len(chatHistory) :
                /\ chatHistory[k].role = "model"
                /\ chatHistory[k].sender = (IF (k - 2) % 2 = 0 THEN "AI 1" ELSE "AI 2")
         /\ \A k \in DebaterIssues :
                issued[k].model = (IF issued[k].i % 2 = 0 THEN "ai1.model" ELSE "ai2.model")
         /\ \A n \in InFlight("runAIDebate") :
                /\ calls[n].body.model = (IF calls[n].i % 2 = 0 THEN "ai1.model" ELSE "ai2.model")
                /\ calls[n].body.systemPrompt = (IF calls[n].i % 2 = 0 THEN "AI 1" ELSE "AI 2")
         /\ Cardinality(SpokenBy(chatHistory, "AI 1")) - Cardinality(SpokenBy(chatHistory, "AI 2"))
                \in {0, 1})

\* AI 1 then AI 2 have spoken
C15_Witness ==
    /\ sessionMode = "ai-vs-ai"
    /\ Len(chatHistory) = 3
    /\ chatHistory[2].sender = "AI 1"
    /\ chatHistory[3].sender = "AI 2"

\* the roles of h alternate user, model, user, ... starting with user
Alternates(h) ==
    /\ Len(h) > 0 => h[1].role = "user"
    /\ \A k \in 1..(Len(h) - 1) : h[k].role # h[k + 1].role

\* C16 (as claimed): every history submitted to the generation endpoint, by a
\* debater, opening, rebuttal or judge call, alternates user/model starting
\* with user.
C16_PayloadAlternates ==
    \A n \in 1..Len(calls) : Alternates(calls[n].body.history)

\* ------------------ the history window of one request, over any conversation
\* the turns a conversation is made of: any role, any sender
Turns == {InitialPromptMsg, PlayerMsg, ModelMsg("AI 1", 0), ModelMsg("AI 2", 0)}
Conversations == UNION {[1..n -> Turns] : n \in 0..MaxConvLen}

\* the conversation is the parameter of the function that builds the request
InitWindow ==
    /\ chatHistory \in Conversations
    /\ debateMode \in Modes
    /\ isLoading = TRUE
    /\ isJudging = FALSE
    /\ error = "null"
    /\ judgment = "null"
    /\ waitingForPlayer = FALSE
    /\ stopDebateRef = FALSE
    /\ aiResponseInProgressRef = FALSE
    /\ maxTurns = 1
    /\ calls = <<>>
    /\ issued = <<>>
    /\ ended = "no"
    /\ playerMsgs = 0
    /\ listing = ListingIdle
    /\ sessionMode = debateMode
    /\ modelCatalog = CatalogIdle

\* one of the three request builders is applied to the conversation
Submit(call) ==
    /\ calls = <<>>
    /\ calls' = <<call>>
    /\ UNCHANGED <<debateMode, chatHistory, isLoading, isJudging, error, judgment,
                   waitingForPlayer, stopDebateRef, aiResponseInProgressRef, maxTurns,
                   issued, ended, playerMsgs, listing, sessionMode, modelCatalog>>

SubmitDebater == \E i \in 0..1 : Submit(DebaterCall(i, chatHistory))
SubmitOpening == Submit(OpeningCall(chatHistory))
SubmitRebuttal == Submit(RebuttalCall(chatHistory))

NextWindow == SubmitDebater \/ SubmitOpening \/ SubmitRebuttal

SpecWindow == InitWindow /\ [][NextWindow]_vars

\* the window of the request in flight: runAIDebate and runPlayerDebate slice
\* the conversation, getAIResponse slices its non-System turns
WindowInput(c) == IF c.fn = "getAIResponse" THEN NonSystem(chatHistory) ELSE chatHistory
WindowOf(c) == DropLeadingModel(SliceLast(WindowInput(c), HISTORY_WINDOW_SIZE))

\* C17: for every conversation the window computed for a request is empty or
\* starts with a user-role turn: the whole leading run of model-role turns of
\* the slice is stripped.
C17_WindowLeadingRole ==
    \A n \in 1..Len(calls) :
        LET w == WindowOf(calls[n])
            sl == SliceLast(WindowInput(calls[n]), HISTORY_WINDOW_SIZE)
        IN  /\ w = <<>> \/ w[1].role = "user"
            /\ \E d \in 0..Len(sl) :
                  /\ w = SubSeq(sl, d + 1, Len(sl))
                  /\ \A k \in 1..d : sl[k].role = "model"

\* the slice of a four-turn conversation is two model turns: both are stripped
C17_Witness ==
    /\ Len(calls) = 1
    /\ calls[1].fn = "runAIDebate"
    /\ Len(chatHistory) = 4
    /\ chatHistory[1].role = "user"
    /\ chatHistory[3].role = "model"
    /\ chatHistory[4].role = "model"
    /\ WindowOf(calls[1]) = <<>>

\* s is a contiguous suffix of t
IsSuffix(s, t) ==
    Len(s) <= Len(t) /\ s = SubSeq(t, Len(t) - Len(s) + 1, Len(t))

\* C18: the window is a contiguous suffix of the conversation (of its
\* non-System turns for getAIResponse) of at most HISTORY_WINDOW_SIZE turns:
\* order is kept, nothing is duplicated or dropped from the middle, and a
\* non-empty window ends with the last turn of the conversation.
C18_WindowIsSuffix ==
    \A n \in 1..Len(calls) :
        LET w == WindowOf(calls[n])
            s == WindowInput(calls[n])
        IN  /\ IsSuffix(w, s)
            /\ Len(w) <= HISTORY_WINDOW_SIZE
            /\ w # <<>> => w[Len(w)] = s[Len(s)]
            /\ (Len(s) >= HISTORY_WINDOW_SIZE /\ s[Len(s) - HISTORY_WINDOW_SIZE + 1].role = "user")
                  => Len(w) = HISTORY_WINDOW_SIZE

\* a four-turn conversation whose window is its last two turns, user then model
C18_Witness ==
    /\ Len(calls) = 1
    /\ calls[1].fn = "runAIDebate"
    /\ Len(chatHistory) = 4
    /\ chatHistory[2].role = "model"
    /\ WindowOf(calls[1]) = <<chatHistory[3], chatHistory[4]>>
    /\ chatHistory[3].role = "user"
    /\ chatHistory[4].role = "model"

FirstAttempt(m) == m.retries = 0

\* C20: a two-agent debate with maxTurns = 1 that ran to the end of its loop
\* issued exactly the call of AI 1, then the call of AI 2, then one call with
\* the judge model, and nothing more until the next start; the transcript is
\* the topic, one turn of AI 1 and one turn of AI 2 (recorded with 0 retries
\* when both calls succeeded at the first attempt), and the judge is given
\* those two turns.
C20_ScenarioA ==
    /\ []((sessionMode = "ai-vs-ai" /\ maxTurns = 1 /\ ended = "completed") =>
            (/\ issued = <<Issue("runAIDebate", 0, "ai1.model"),
                           Issue("runAIDebate", 1, "ai2.model"),
                           Issue("performJudgment", 0, "judgeModel")>>
             /\ Len(chatHistory) = 3
             /\ chatHistory[1] = TopicMsg
             /\ \E r1 \in 0..MaxRateLimited, r2 \in 0..MaxRateLimited :
                    /\ chatHistory[2] = ModelMsg("AI 1", r1)
                    /\ chatHistory[3] = ModelMsg("AI 2", r2)
             /\ InFlight("runAIDebate") = {}
             /\ \A n \in 1..Len(calls) :
                    /\ calls[n].fn = "performJudgment"
                    /\ calls[n].body.model = "judgeModel"
                    /\ calls[n].transcript = <<[sender |-> "AI 1", text |-> "text"],
                                               [sender |-> "AI 2", text |-> "text"]>>))
    /\ [][(sessionMode = "ai-vs-ai" /\ ended = "completed" /\ ended' = "completed") =>
            (issued' = issued /\ chatHistory' = chatHistory)]_vars

\* both calls succeeded at the first attempt and the judge call is at the server
C20_Witness ==
    /\ sessionMode = "ai-vs-ai"
    /\ maxTurns = 1
    /\ ended = "completed"
    /\ FirstAttempt(chatHistory[2])
    /\ FirstAttempt(chatHistory[3])
    /\ Len(calls) = 1
    /\ calls[1].fn = "performJudgment"
    /\ calls[1].stage = "server"
    /\ isJudging

\* C21: in player mode the session waits for the player after every turn of
\* AI 1: while it waits no call is in flight (so nothing but a user action can
\* happen) and the last turn is AI 1's; an accepted submission appends one
\* Player turn and issues exactly one call, for AI 1; and the successful
\* return of the opening or of a rebuttal call appends the turn of AI 1 and
\* waits again.
C21_PlayerModeHalts ==
    /\ [](waitingForPlayer =>
            (/\ sessionMode = "ai-vs-player"
             /\ calls = <<>>
             /\ ~isLoading
             /\ chatHistory[Len(chatHistory)].role = "model"
             /\ chatHistory[Len(chatHistory)].sender = "AI 1"))
    /\ [][/\ playerMsgs' = playerMsgs + 1 =>
                (/\ waitingForPlayer /\ ~waitingForPlayer'
                 /\ chatHistory' = Append(chatHistory, PlayerMsg)
                 /\ issued' = Append(issued, Issue("getAIResponse", playerMsgs, "ai1.model"))
                 /\ Len(calls') = 1
                 /\ calls'[1].fn = "getAIResponse"
                 /\ calls'[1].body.model = "ai1.model"
                 /\ calls'[1].body.systemPrompt = "AI 1"
                 /\ calls'[1].stage = "fetch")
          /\ \A n \in 1..Len(calls) :
                (/\ calls[n].fn \in {"runPlayerDebate", "getAIResponse"}
                 /\ calls[n].resp.status = 200
                 /\ calls' # calls) =>
                    (/\ waitingForPlayer'
                     /\ calls' = <<>>
                     /\ issued' = issued
                     /\ chatHistory' = Append(chatHistory, ModelMsg("AI 1", calls[n].resp.retries)))]_vars

\* waiting for the player's second message: topic, AI 1, Player, AI 1
C21_Witness ==
    /\ sessionMode = "ai-vs-player"
    /\ waitingForPlayer
    /\ playerMsgs = 1
    /\ Len(chatHistory) = 4
    /\ calls = <<>>
    /\ Len(issued) = 2

\* C22: while the judge call is in flight there is no verdict; when it fails,
\* the verdict stays absent, the transcript is unchanged, the error banner is
\* set and the judging flag returns to false.
C22_JudgeFailure ==
    /\ []((InFlight("performJudgment") # {}) => (judgment = "null" /\ isJudging))
    /\ [][\A n \in 1..Len(calls) :
            (calls[n].fn = "performJudgment" /\ Failed(calls[n]) /\ calls' # calls) =>
                (/\ judgment' = "null"
                 /\ chatHistory' = chatHistory
                 /\ error' = "judge"
                 /\ ~isJudging'
                 /\ ~isLoading'
                 /\ calls' = <<>>
                 /\ ended' = ended)]_vars

\* the judge of a finished two-agent debate failed: both turns are still there
C22_Witness ==
    /\ error = "judge"
    /\ judgment = "null"
    /\ ~isJudging
    /\ calls = <<>>
    /\ JudgeIssued
    /\ ended = "completed"
    /\ Len(chatHistory) = 3

\* a field that handleStartDebate requires is empty in form
MissingRequired(form) ==
    \/ ~form["topic"]
    \/ ~form["ai1.model"]
    \/ ~form["ai1.finalPrompt"]
    \/ ~form["judgeModel"]
    \/ debateMode = "ai-vs-ai" /\ (~form["ai2.model"] \/ ~form["ai2.finalPrompt"])

\* C23: a start with a required field empty changes nothing but the error
\* message: transcript, verdict, loading/judging/waiting state, the cancel and
\* in-flight flags are unchanged and no call is issued.
C23_InvalidStart ==
    [][\A form \in [FormFields -> BOOLEAN] :
         (MissingRequired(form) /\ HandleStartDebate(form)) =>
            (/\ error' = "validation"
             /\ UNCHANGED <<debateMode, chatHistory, isLoading, isJudging, judgment,
                            waitingForPlayer, stopDebateRef, aiResponseInProgressRef,
                            maxTurns, calls, issued, ended, playerMsgs, listing,
                            sessionMode, modelCatalog>>)]_vars

\* an invalid start after a judged debate: verdict and transcript are still there
C23_Witness ==
    /\ error = "validation"
    /\ judgment = "verdict"
    /\ Len(chatHistory) = 3
    /\ issued # <<>>
    /\ calls = <<>>

\* C24: a start that passes validation, from whatever the previous session
\* left, leaves the transcript with the topic turn only, no model turn, no
\* verdict, no error, both flags false, and hands the one seed turn with the
\* opening instruction to the call it issues (one call, unless maxTurns = 0).
C24_StartResets ==
    [][\A form \in [FormFields -> BOOLEAN] :
         (~MissingRequired(form) /\ HandleStartDebate(form)) =>
            (/\ chatHistory' = <<TopicMsg>>
             /\ chatHistory'[1].sender = "System"
             /\ ModelTurns(chatHistory') = {}
             /\ judgment' = "null"
             /\ ~stopDebateRef'
             /\ ~aiResponseInProgressRef'
             /\ ~waitingForPlayer'
             /\ playerMsgs' = 0
             /\ sessionMode' = debateMode
             /\ Len(calls') = (IF debateMode = "ai-vs-ai" /\ maxTurns = 0 THEN 0 ELSE 1)
             /\ Len(issued') = Len(calls')
             /\ \A n \in 1..Len(calls') :
                    /\ calls'[n].currentHistory = <<InitialPromptMsg>>
                    /\ calls'[n].currentHistory[1].role = "user"
                    /\ calls'[n].body.history = <<Part("user", "initialPrompt")>>
                    /\ calls'[n].i = 0
                    /\ calls'[n].body.model = "ai1.model")]_vars

\* just started: the first debater call is about to be fetched
C24_Witness ==
    /\ sessionMode = "ai-vs-ai"
    /\ chatHistory = <<TopicMsg>>
    /\ Len(calls) = 1
    /\ calls[1].fn = "runAIDebate"
    /\ calls[1].i = 0
    /\ calls[1].stage = "fetch"
    /\ calls[1].fetched = 0
    /\ ~stopDebateRef
    /\ judgment = "null"


\* the pending catalog fetches whose signal has not been aborted
LiveFetches ==
    {n \in 1..Len(modelCatalog.fetches) : ~modelCatalog.fetches[n].aborted}

C26_AbortIsNoOp ==
    [][\A n \in 1..Len(modelCatalog.fetches) : \A answer \in CatalogAnswers :
          (modelCatalog.fetches[n].aborted /\ FetchModelsResume(n, answer)) =>
              /\ error' = error
              /\ modelCatalog'.models = modelCatalog.models
              /\ modelCatalog'.isModelsInitializedRef = modelCatalog.isModelsInitializedRef]_vars

\* the aborted first fetch has settled while the second is still in flight:
\* nothing is shown, nothing is initialized, and the loading flag is down
C26_Witness ==
    /\ modelCatalog.started = 2
    /\ Len(modelCatalog.fetches) = 1
    /\ ~modelCatalog.fetches[1].aborted
    /\ ~modelCatalog.isLoadingModels
    /\ ~modelCatalog.isModelsInitializedRef
    /\ modelCatalog.models = <<>>
    /\ error = "null"


\* exactly one of model, systemPrompt and history is absent from the body and
\* what is present is well-formed
OneFieldMissing(body) ==
    /\ Cardinality({f \in {"model", "systemPrompt", "history"} :
                       \/ f = "model" /\ body.model = Undefined
                       \/ f = "systemPrompt" /\ body.systemPrompt = Undefined
                       \/ f = "history" /\ ~body.hasHistory}) = 1
    /\ body.model \in {Undefined, "x"}
    /\ body.systemPrompt \in {Undefined, "x"}
    /\ body.history = <<>> \/ body.history[1].role = "user"

\* C27 (as claimed): POST /api/debate answers 400, without calling the model,
\* whenever any one of model, systemPrompt or history is missing from the body.
C27_MissingFieldIs400 ==
    \A n \in 1..Len(calls) :
        (calls[n].stage = "returned" /\ OneFieldMissing(calls[n].body)) =>
            (calls[n].resp.status = 400 /\ calls[n].invoked = 0)


\* no entry of the catalog advertises generateContent
NoneGenerates(c) == \A k \in 1..Len(c) : ~c[k].supportsGenerate

\* C28: when the catalog endpoint answers successfully and no returned model
\* advertises generateContent, GET /api/models answers 404 "No compatible
\* models available" in that very attempt: it neither sleeps nor loops again,
\* and a finished handler calls the catalog endpoint no more.
C28_EmptyCatalogIs404 ==
    /\ [][\A c \in Catalogs :
            (NoneGenerates(c) /\ ModelsFetch("ok", c)) =>
                /\ listing'.pc = "done"
                /\ listing'.resp.status = 404
                /\ listing'.resp.error = "No compatible models available"
                /\ listing'.fetched = listing.fetched + 1
                /\ listing'.slept = listing.slept
                /\ listing'.i = listing.i]_vars
    /\ [][listing.pc = "done" => listing' = listing]_vars

\* the third attempt met a catalog without a compatible model, after two retries
C28_Witness ==
    /\ listing.pc = "done"
    /\ listing.resp.status = 404
    /\ listing.fetched = 3
    /\ listing.slept = 2


\* how many entries of catalog c advertise generateContent and have k as the
\* trailing segment of their name
Compatible(c, k) ==
    Cardinality({n \in 1..Len(c) : c[n].supportsGenerate /\ c[n].name[Len(c[n].name)] = k})

IsPrefix(s, t) == Len(s) <= Len(t) /\ s = SubSeq(t, 1, Len(s))

\* C30: except in a start that passes validation, every step leaves each turn
\* of the transcript at its position with its role, speaker and content, and
\* at most adds turns at the end; so between two such starts the transcript
\* only grows, whatever responses, submissions, stops and verdicts occur.
C30_AppendOnly ==
    [][\/ \E form \in [FormFields -> BOOLEAN] :
              ~MissingRequired(form) /\ HandleStartDebate(form)
       \/ /\ IsPrefix(chatHistory, chatHistory')
          /\ \A k \in 1..Len(chatHistory) :
                 /\ chatHistory'[k].role = chatHistory[k].role
                 /\ chatHistory'[k].sender = chatHistory[k].sender
                 /\ chatHistory'[k].text = chatHistory[k].text]_vars

\* a player session judged after two answers and a submission: four turns
\* were added one after the other
C30_Witness ==
    /\ sessionMode = "ai-vs-player"
    /\ Len(chatHistory) = 4
    /\ chatHistory[3] = PlayerMsg
    /\ judgment # "null"


\* C31: the transcript handed to the judge is the sequence of the session's
\* turns whose sender is not System (debaters and Player), each once and in
\* the order of the session, as sender and content; no System turn is in it.
C31_JudgeTranscript ==
    \A n \in 1..Len(calls) :
        calls[n].fn = "performJudgment" =>
            LET t == calls[n].transcript
                turns == SelectSeq(chatHistory, LAMBDA m : m.sender # "System")
            IN  /\ Len(t) = Len(turns)
                /\ \A k \in 1..Len(t) :
                       /\ t[k].sender = turns[k].sender
                       /\ t[k].text = turns[k].text
                       /\ t[k].sender # "System"

\* the judge call of a two-agent session is in flight: two debater turns go
\* to the judge, the seed and counter-prompts of the loop's history do not
C31_Witness ==
    \E n \in 1..Len(calls) :
        /\ calls[n].fn = "performJudgment"
        /\ sessionMode = "ai-vs-ai"
        /\ Len(calls[n].transcript) = 2
        /\ Len(calls[n].currentHistory) > 2


\* where the converted window starts in the history of request c: after the
\* re-injected opening prompt, if the request has one
ConvertedFrom(c) ==
    IF c.fn # "getAIResponse" /\ Len(WindowOf(c)) = 0 THEN 1 ELSE 0

\* C32: the payload made from a window has one entry per turn of the window,
\* in the same order with the same role and content, and an entry has no field
\* but role and content; it is determined by the window alone (the request
\* adds to it only the re-injected opening prompt in front or the counter
\* prompt behind).
C32_PayloadOfWindow ==
    \A n \in 1..Len(calls) :
        LET c == calls[n]
            w == WindowOf(c)
            p == c.body.history
            d == ConvertedFrom(c)
        IN  /\ Len(p) = Len(w) + (IF c.fn = "getAIResponse" THEN 1 ELSE d)
            /\ \A k \in 1..Len(w) :
                   /\ p[k + d].role = w[k].role
                   /\ p[k + d].text = w[k].text
            /\ \A k \in 1..Len(p) : DOMAIN p[k] = {"role", "text"}
            /\ SubSeq(p, d + 1, d + Len(w)) = ToApi(w)

\* a debater request whose window holds a user turn and a debater's turn
C32_Witness ==
    /\ Len(calls) = 1
    /\ calls[1].fn = "runAIDebate"
    /\ Len(WindowOf(calls[1])) = 2
    /\ WindowOf(calls[1])[2].sender = "AI 2"
    /\ Len(calls[1].body.history) = 2


\* C33: in a two-agent session the history of the loop is user,(model,user)*
\* at the head of every iteration and at the end of the loop: 2i+1 turns
\* after i answered turns, roles alternating, first and last turn user-role.
\* So the window of every debater request is non-empty, starts with a
\* user-role turn and ends with the latest prompt, and the request carries
\* the converted window as it is, without a re-injected opening prompt.
C33_LoopHistoryShape ==
    \A n \in 1..Len(calls) :
        LET c == calls[n]
            h == c.currentHistory
            w == HistoryWindow(h)
        IN  /\ c.fn = "runAIDebate" =>
                /\ Len(h) = 2 * c.i + 1
                /\ Cardinality({k \in 1..Len(h) : h[k].role = "model"}) = c.i
                /\ Alternates(h)
                /\ h[Len(h)].role = "user"
                /\ Len(w) > 0
                /\ w[1].role = "user"
                /\ w[Len(w)] = h[Len(h)]
                /\ Len(c.body.history) = Len(w)
                /\ \A k \in 1..Len(w) :
                       /\ c.body.history[k].role = w[k].role
                       /\ c.body.history[k].text = w[k].text
            /\ (c.fn = "performJudgment" /\ sessionMode = "ai-vs-ai") =>
                /\ Len(h) % 2 = 1
                /\ Alternates(h)
                /\ h[Len(h)].role = "user"

\* the second debater's request: three turns in the history, of which the
\* window keeps the counter-prompt after trimming the first debater's turn
C33_Witness ==
    \E n \in 1..Len(calls) :
        /\ calls[n].fn = "runAIDebate"
        /\ calls[n].i = 1
        /\ Len(calls[n].currentHistory) = 3
        /\ calls[n].body.history = <<Part("user", "counter:AI 2")>>


\* C34 (as claimed): in every state in which a rebuttal call of getAIResponse
\* is in flight, aiResponseInProgressRef is true.
C34_FlagCoversRebuttal ==
    \A n \in 1..Len(calls) :
        calls[n].fn = "getAIResponse" => aiResponseInProgressRef


\* the rebuttal calls of getAIResponse that are in flight
RebuttalCalls == {n \in 1..Len(calls) : calls[n].fn = "getAIResponse"}

\* C34 (amended): aiResponseInProgressRef is raised in the step that issues a
\* rebuttal call; while that call is in flight it is lowered only by the
\* call's own completion or by stop, so a rebuttal call is in flight with the
\* flag down only after a stop.
C34_FlagUntilCompletionOrStop ==
    /\ [][Cardinality(RebuttalCalls') > Cardinality(RebuttalCalls) =>
            aiResponseInProgressRef']_vars
    /\ [][(RebuttalCalls # {} /\ aiResponseInProgressRef /\ ~aiResponseInProgressRef') =>
            (HandleStopDebate \/ \E n \in RebuttalCalls : GetAIResponseResume(n))]_vars
    /\ []((RebuttalCalls # {} /\ ~aiResponseInProgressRef) => stopDebateRef)

\* stop was pressed while the rebuttal call was in flight: the call is still
\* pending and the flag is down
C34_Witness ==
    /\ RebuttalCalls # {}
    /\ ~aiResponseInProgressRef
    /\ stopDebateRef
    /\ isLoading


\* C35: while a debater, opening, rebuttal or judge call is in flight the
\* loading or the judging state is up, so the start button is disabled; stop
\* leaves the loading state as it is. A start with every field filled is
\* therefore taken with no call pending: the only call pending after it is the
\* new session's first, and no two loops of runAIDebate are ever pending.
C35_NoStartWhileInFlight ==
    /\ [](Len(calls) > 0 => (isLoading \/ isJudging))
    /\ [](Len(calls) > 0 => ~StartEnabled)
    /\ [](Cardinality(InFlight("runAIDebate")) <= 1)
    /\ [][HandleStopDebate => isLoading' = isLoading]_vars
    /\ [][HandleStartDebate([f \in FormFields |-> TRUE]) =>
            /\ calls = <<>>
            /\ \A n \in 1..Len(calls') : calls'[n].i = 0 /\ calls'[n].attempt = 0]_vars

\* stop was requested during the second debater's call: the call is still
\* pending and the loading state still disables the start button
C35_Witness ==
    /\ Len(calls) = 1
    /\ calls[1].fn = "runAIDebate"
    /\ calls[1].i = 1
    /\ stopDebateRef
    /\ isLoading
    /\ ~StartEnabled


\* C36: a judge call in flight is the only call in flight. It is issued either
\* by the finally block of runAIDebate, in the step that ends the loop (the
\* loading state goes down and no debater call remains), or by ending the
\* player debate while the page waits for the player with no call pending.
C36_JudgeAlone ==
    /\ [](InFlight("performJudgment") # {} => Len(calls) = 1)
    /\ [][Cardinality(InFlight("performJudgment")') > Cardinality(InFlight("performJudgment")) =>
            /\ Len(calls') = 1
            /\ ~isLoading'
            /\ \/ /\ HandleEndPlayerDebate
                  /\ waitingForPlayer
                  /\ calls = <<>>
               \/ /\ \E n \in 1..Len(calls) : RunAIDebateResume(n)
                  /\ Len(calls) = 1
                  /\ InFlight("runAIDebate")' = {}]_vars

\* the judge call of a player session ended by the user, alone in flight
C36_Witness ==
    /\ Len(calls) = 1
    /\ calls[1].fn = "performJudgment"
    /\ sessionMode = "ai-vs-player"
    /\ ended = "user"
    /\ isJudging
    /\ ~isLoading


\* ------------- any request to POST /api/debate, from the page or another client
\* Either one of the page's four request builders is applied to a conversation,
\* or a body of any shape is sent as it is; the request then runs through
\* fetchWithRetry and the handler.
InitSubmit == InitWindow \/ InitCall

SubmitJudge == Submit(JudgeCall(chatHistory))

NextSubmit ==
    \/ SubmitDebater
    \/ SubmitOpening
    \/ SubmitRebuttal
    \/ SubmitJudge
    \/ NetFail
    \/ Receive
    \/ SendMessage

SpecSubmit == InitSubmit /\ [][NextSubmit]_vars

\* the request was built by the page
FromPage(c) == c.fn \in {"runAIDebate", "runPlayerDebate", "getAIResponse", "performJudgment"}

\* the history of the body is non-empty and its first entry is not user-role
LeadingNonUser(body) ==
    body.hasHistory /\ Len(body.history) > 0 /\ body.history[1].role # "user"

\* C37: a request whose history is non-empty and does not start with a
\* user-role entry is answered 500 by the handler before its retry loop, with
\* no model call; and every history built by the page (debater, opening,
\* rebuttal, judge), from any conversation, is non-empty and starts with a
\* user-role entry, so a request of the page never gets that answer.
C37_LeadingRoleRejected ==
    \A n \in 1..Len(calls) :
        LET c == calls[n]
        IN  /\ (LeadingNonUser(c.body) /\ c.stage \in {"server", "returned"}) =>
                /\ c.stage = "returned"
                /\ c.resp.status = 500
                /\ c.invoked = 0
                /\ c.slept = 0
                /\ c.srvI = 0
            /\ FromPage(c) =>
                /\ ~LeadingNonUser(c.body)
                /\ Len(c.body.history) > 0
                /\ c.body.history[1].role = "user"
                /\ c.stage = "returned" => c.resp.details # "invalid"

\* a well-formed request but for its history, which starts with a model-role
\* entry, has been answered 500 without a model call
C37_Witness ==
    \E n \in 1..Len(calls) :
        /\ calls[n].fn = "request"
        /\ calls[n].body.model = "x"
        /\ calls[n].body.systemPrompt = "x"
        /\ LeadingNonUser(calls[n].body)
        /\ calls[n].stage = "returned"
        /\ calls[n].resp.status = 500
        /\ calls[n].invoked = 0


PlayerCalls == InFlight("runPlayerDebate") \cup InFlight("getAIResponse")

SpecLive ==
    /\ Init
    /\ [][Next]_vars
    /\ WF_vars(Receive)
    /\ WF_vars(SendMessage)
    /\ WF_vars(ResumeAI)
    /\ WF_vars(ResumeOpening)
    /\ WF_vars(ResumeRebuttal)
    /\ WF_vars(ResumeJudge)

\* no call is pending and the page neither loads nor judges
Terminal == calls = <<>> /\ ~isLoading /\ ~isJudging

\* C39: with a live network every two-agent debate that is running or being
\* judged reaches a state with no call in flight and the loading and judging
\* states both down, whatever answers, failures and stop requests occur.
C39_TwoAgentTerminates ==
    (sessionMode = "ai-vs-ai" /\ (isLoading \/ isJudging)) ~> Terminal

\* a two-agent debate stopped after its first turn and then judged has come
\* to rest
C39_Witness ==
    /\ sessionMode = "ai-vs-ai"
    /\ Terminal
    /\ ended = "stopped"
    /\ judgment = "verdict"
    /\ Len(chatHistory) = 2

====
